---- MODULE Spec2Model ----
(***************************************************************************)
(* A model of the nostr-proto types crate: the EventKind taxonomy          *)
(* (types/event_kind.rs), the subscription Filter and its matching         *)
(* (types/filter.rs) and the NAddr TLV codec (types/naddr.rs).             *)
(*                                                                         *)
(* The crate is a library of pure functions and of methods that mutate one *)
(* value, so each part is a small state machine that draws its inputs from *)
(* bounded sets and applies the operations to them:                        *)
(*   SpecKind    u32 <-> EventKind conversions                             *)
(*   SpecFilter  the Filter's add/del methods for ids, authors and kinds    *)
(*   SpecTags    the Filter's add/del/set/clear methods for tag values     *)
(*   SpecMatch   Filter::event_matches_incomplete                          *)
(*   SpecNAddr   NAddr::as_bech32_string / try_from_bech32_string          *)
(*   SpecPayload NAddr::try_from_bech32_string on arbitrary payloads       *)
(*   SpecNAddrEq NAddr's PartialEq and Hash                                *)
(*   SpecIter    EventKind::iter() and the EventKindIterator               *)
(*   SpecAddTags add_pubkey_to_tags, add_event_to_tags, add_addr_to_tags   *)
(*   SpecSerde   EventKind's Deserialize                                   *)
(***************************************************************************)
EXTENDS Integers, Sequences, FiniteSets, TLC

VARIABLES
    kOrig,      \* kind machine: the input, [ty |-> "u32", u] or [ty |-> "kind", e]
    kCur,       \* kind machine: the value after the conversions applied so far
    kSteps,     \* kind machine: how many conversions were applied
    filter,     \* the Filter: [ids, authors, kinds, tags, since, until, limit]
    ghost,      \* the sets the same inserts and removes give: [ids, authors, kinds]
    lastOp,     \* the Filter method called last, its arguments and the Filter before
    event,      \* the Event last given to event_matches_incomplete
    matched,    \* what event_matches_incomplete returned for it: None before, then Some(bool)
    nAddr,      \* the NAddr given to as_bech32_string
    nText,      \* the bech32 string it gave: None before, then Some(string)
    nResult,    \* what try_from_bech32_string made of the string: None before
    pChunks,    \* payload machine: the payload of an "naddr" string, as a list of byte chunks
    pResult,    \* what try_from_bech32_string made of that payload: None before
    pOther,     \* the same payload with one edit, and what decoding made of it: None before
    nOther,     \* the NAddr that nAddr is compared with
    nCmp,       \* what == and the two hash calls gave: None before
    itA,        \* an EventKindIterator from EventKind::iter(), with what it yielded
    itB,        \* a copy of itA taken at some point: None before
    itHint,     \* what itA.size_hint() returned last: None before, and after a next()
    existing_tags, \* the Vec<Tag> the add_*_to_tags functions work on
    lastAdd,    \* the add_*_to_tags call made last: its arguments, the list before, the index returned
    deIn,       \* the unsigned integer a deserializer hands to the EventKindVisitor
    deOut       \* the EventKind the visitor made of it: None before

kindVars == <<kOrig, kCur, kSteps>>

filterVars == <<filter, ghost, lastOp>>

matchVars == <<event, matched>>

naddrVars == <<nAddr, nText, nResult>>

payloadVars == <<pChunks, pResult, pOther>>

cmpVars == <<nOther, nCmp>>

iterVars == <<itA, itB, itHint>>

addVars == <<existing_tags, lastAdd>>

serdeVars == <<deIn, deOut>>

\* The variables of the machines for the decoder, ==/hash, the iterator, the
\* tag helpers and serde.
laterVars == <<payloadVars, cmpVars, iterVars, addVars, serdeVars>>

vars == <<kindVars, filterVars, matchVars, naddrVars, laterVars>>

-----------------------------------------------------------------------------
(* Generic helpers                                                         *)

\* Option<T>: None is the empty sequence, Some(x) the one-element sequence.
None == <<>>

Some(x) == <<x>>

\* The set of elements of a sequence.
Range(s) == {s[i] : i \in DOMAIN s}

-----------------------------------------------------------------------------
(* types/event_kind.rs                                                     *)

\* The table given to define_event_kinds!: <<name, value>> in declaration order.
NamedKinds ==
    <<
       <<"Metadata", 0>>,
       <<"TextNote", 1>>,
       <<"RecommendRelay", 2>>,
       <<"ContactList", 3>>,
       <<"EncryptedDirectMessage", 4>>,
       <<"EventDeletion", 5>>,
       <<"Repost", 6>>,
       <<"Reaction", 7>>,
       <<"BadgeAward", 8>>,
       <<"Seal", 13>>,
       <<"DmChat", 14>>,
       <<"GenericRepost", 16>>,
       <<"ChannelCreation", 40>>,
       <<"ChannelMetadata", 41>>,
       <<"ChannelMessage", 42>>,
       <<"ChannelHideMessage", 43>>,
       <<"ChannelMuteUser", 44>>,
       <<"PublicChatReserved45", 45>>,
       <<"PublicChatReserved46", 46>>,
       <<"PublicChatReserved47", 47>>,
       <<"PublicChatReserved48", 48>>,
       <<"PublicChatReserved49", 49>>,
       <<"Timestamp", 1040>>,
       <<"GiftWrap", 1059>>,
       <<"FileMetadata", 1063>>,
       <<"LiveChatMessage", 1311>>,
       <<"ProblemTracker", 1971>>,
       <<"Reporting", 1984>>,
       <<"Label", 1985>>,
       <<"CommunityPost", 4549>>,
       <<"CommunityPostApproval", 4550>>,
       <<"JobFeedback", 7000>>,
       <<"ZapGoal", 9041>>,
       <<"ZapRequest", 9734>>,
       <<"Zap", 9735>>,
       <<"Highlights", 9802>>,
       <<"MuteList", 10000>>,
       <<"PinList", 10001>>,
       <<"RelayList", 10002>>,
       <<"BookmarkList", 10003>>,
       <<"CommunityList", 10004>>,
       <<"PublicChatsList", 10005>>,
       <<"BlockedRelaysList", 10006>>,
       <<"SearchRelaysList", 10007>>,
       <<"InterestsList", 10015>>,
       <<"UserEmojiList", 10030>>,
       <<"WalletInfo", 13194>>,
       <<"Auth", 22242>>,
       <<"WalletRequest", 23194>>,
       <<"WalletResponse", 23195>>,
       <<"NostrConnect", 24133>>,
       <<"HttpAuth", 27235>>,
       <<"FollowSets", 30000>>,
       <<"GenericSets", 30001>>,
       <<"RelaySets", 30002>>,
       <<"BookmarkSets", 30003>>,
       <<"CurationSets", 30004>>,
       <<"ProfileBadges", 30008>>,
       <<"BadgeDefinition", 30009>>,
       <<"InterestSets", 30015>>,
       <<"CreateUpdateStall", 30017>>,
       <<"CreateUpdateProduct", 30018>>,
       <<"LongFormContent", 30023>>,
       <<"DraftLongFormContent", 30024>>,
       <<"EmojiSets", 30030>>,
       <<"AppSpecificData", 30078>>,
       <<"LiveEvent", 30311>>,
       <<"UserStatus", 30315>>,
       <<"ClassifiedListing", 30402>>,
       <<"DraftClassifiedListing", 30403>>,
       <<"DateBasedCalendarEvent", 31922>>,
       <<"TimeBasedCalendarEvent", 31923>>,
       <<"Calendar", 31924>>,
       <<"CalendarEventRsvp", 31925>>,
       <<"HandlerRecommendation", 31989>>,
       <<"HandlerInformation", 31990>>,
       <<"CommunityDefinition", 34550>>
    >>

\* A named variant carries nothing.
Named(n) == [variant |-> n]

\* static WELL_KNOWN_KINDS: the named kinds in declaration order.
WELL_KNOWN_KINDS == [i \in DOMAIN NamedKinds |-> Named(NamedKinds[i][1])]

NamedCodes == {NamedKinds[i][2] : i \in DOMAIN NamedKinds}

NamedNames == {NamedKinds[i][1] : i \in DOMAIN NamedKinds}

\* The catch-all variants, each carrying a u32.
CatchAllVariants == {"JobRequest", "JobResult", "Replaceable", "Ephemeral", "Other"}

JobRequest(x) == [variant |-> "JobRequest", u |-> x]

JobResult(x) == [variant |-> "JobResult", u |-> x]

Replaceable(x) == [variant |-> "Replaceable", u |-> x]

Ephemeral(x) == [variant |-> "Ephemeral", u |-> x]

Other(x) == [variant |-> "Other", u |-> x]

\* The match arm `$value => $name` that takes u, when there is one.
NameOfCode(u) == NamedKinds[CHOOSE i \in DOMAIN NamedKinds : NamedKinds[i][2] = u][1]

\* The match arm `$name => $value`.
CodeOfName(n) == NamedKinds[CHOOSE i \in DOMAIN NamedKinds : NamedKinds[i][1] = n][2]

\* impl From<u32> for EventKind: the literal arms first, then the guarded
\* ranges in order (a Rust range a..b excludes b), then Other.
EventKindFromU32(u) ==
    IF u \in NamedCodes THEN Named(NameOfCode(u))
    ELSE IF 5000 <= u /\ u < 5999 THEN JobRequest(u)
    ELSE IF 6000 <= u /\ u < 6999 THEN JobResult(u)
    ELSE IF 10000 <= u /\ u < 20000 THEN Replaceable(u)
    ELSE IF 20000 <= u /\ u < 30000 THEN Ephemeral(u)
    ELSE Other(u)

\* A slip in the second table: the named arms give the variant's position in
\* the declaration (as a plain `as u32` cast of a fieldless enum would).
U32FromEventKindByPosition(e) ==
    IF e.variant \in CatchAllVariants THEN e.u
    ELSE (CHOOSE i \in DOMAIN NamedKinds : NamedKinds[i][1] = e.variant) - 1

\* impl From<EventKind> for u32.
U32FromEventKind(e) ==
    IF e.variant \in CatchAllVariants THEN e.u
    ELSE CodeOfName(e.variant)

\* EventKind::is_job_request (a Rust range a..=b includes b).
is_job_request(e) ==
    LET u == U32FromEventKind(e) IN 5000 <= u /\ u <= 5999

\* EventKind::is_job_result
is_job_result(e) ==
    LET u == U32FromEventKind(e) IN 6000 <= u /\ u <= 6999

\* is_replaceable without its two named arms: the number alone decides.
is_replaceable_by_number(e) ==
    LET u == U32FromEventKind(e)
    IN  (10000 <= u /\ u <= 19999) \/ (30000 <= u /\ u <= 39999)

\* EventKind::is_replaceable
is_replaceable(e) ==
    IF e = Named("Metadata") THEN TRUE
    ELSE IF e = Named("ContactList") THEN TRUE
    ELSE LET u == U32FromEventKind(e)
         IN  (10000 <= u /\ u <= 19999) \/ (30000 <= u /\ u <= 39999)

\* EventKind::is_ephemeral
is_ephemeral(e) ==
    LET u == U32FromEventKind(e) IN 20000 <= u /\ u <= 29999

\* EventKind::is_parameterized_replaceable
is_parameterized_replaceable(e) ==
    LET u == U32FromEventKind(e) IN 30000 <= u /\ u <= 39999

-----------------------------------------------------------------------------
(* types/filter.rs                                                         *)

\* Vec::swap_remove: the element at index i is replaced by the last one.
SwapRemove(s, i) ==
    [j \in 1 .. (Len(s) - 1) |-> IF j = i THEN s[Len(s)] ELSE s[j]]

\* iter().position(|y| *y == x): the first index holding x (x is in s).
Position(s, x) ==
    CHOOSE i \in DOMAIN s : s[i] = x /\ \A j \in 1 .. (i - 1) : s[j] # x

\* The lower-case hexadecimal digits.
HexDigits ==
    <<"0", "1", "2", "3", "4", "5", "6", "7", "8", "9", "a", "b", "c", "d", "e", "f">>

\* Id -> IdHex and PublicKey -> PublicKeyHex (`.into()`): two lower-case hex
\* digits per byte, the high nibble first.
ToHex(bytes) ==
    [i \in 1 .. (2 * Len(bytes)) |->
        IF i % 2 = 1 THEN HexDigits[(bytes[(i + 1) \div 2] \div 16) + 1]
        ELSE HexDigits[(bytes[i \div 2] % 16) + 1]]

\* BTreeMap<char, Vec<String>>: a function from the letters present.
EmptyMap == [l \in {} |-> <<>>]

\* BTreeMap::insert
MapInsert(m, l, values) ==
    [x \in (DOMAIN m) \cup {l} |-> IF x = l THEN values ELSE m[x]]

\* BTreeMap::remove
MapRemove(m, l) == [x \in (DOMAIN m) \ {l} |-> m[x]]

\* Filter::new: Default::default()
Filter_new ==
    [ids |-> <<>>, authors |-> <<>>, kinds |-> <<>>, tags |-> EmptyMap,
     since |-> None, until |-> None, limit |-> None]

\* Filter::add_id without the `contains` test.
add_id_unchecked(f, id_hex) == [f EXCEPT !.ids = Append(@, id_hex)]

\* Filter::add_id
add_id(f, id_hex) ==
    IF id_hex \notin Range(f.ids)
    THEN [f EXCEPT !.ids = Append(@, id_hex)]
    ELSE f

\* Filter::del_id
del_id(f, id_hex) ==
    IF id_hex \in Range(f.ids)
    THEN [f EXCEPT !.ids = SwapRemove(@, Position(@, id_hex))]
    ELSE f

\* Filter::add_author
add_author(f, public_key_hex) ==
    IF public_key_hex \notin Range(f.authors)
    THEN [f EXCEPT !.authors = Append(@, public_key_hex)]
    ELSE f

\* Filter::del_author
del_author(f, public_key_hex) ==
    IF public_key_hex \in Range(f.authors)
    THEN [f EXCEPT !.authors = SwapRemove(@, Position(@, public_key_hex))]
    ELSE f

\* Filter::add_event_kind
add_event_kind(f, event_kind) ==
    IF event_kind \in Range(f.kinds)
    THEN f
    ELSE [f EXCEPT !.kinds = Append(@, event_kind)]

\* Filter::del_event_kind
del_event_kind(f, event_kind) ==
    IF event_kind \in Range(f.kinds)
    THEN [f EXCEPT !.kinds = SwapRemove(@, Position(@, event_kind))]
    ELSE f

\* Filter::add_tag_value: entry(letter).and_modify(push).or_insert(vec![value])
add_tag_value(f, letter, value) ==
    IF letter \in DOMAIN f.tags
    THEN [f EXCEPT !.tags = MapInsert(@, letter, Append(@[letter], value))]
    ELSE [f EXCEPT !.tags = MapInsert(@, letter, <<value>>)]

\* Filter::del_tag_value
del_tag_value(f, letter, value) ==
    IF letter \in DOMAIN f.tags
    THEN LET values == f.tags[letter]
             left == IF value \in Range(values)
                     THEN SwapRemove(values, Position(values, value))
                     ELSE values
             became_empty == left = <<>>
         IN  IF became_empty
             THEN [f EXCEPT !.tags = MapRemove(@, letter)]
             ELSE [f EXCEPT !.tags = MapInsert(@, letter, left)]
    ELSE f

\* Filter::set_tag_values
set_tag_values(f, letter, values) ==
    [f EXCEPT !.tags = MapInsert(@, letter, values)]

\* Filter::clear_tag_values
clear_tag_values(f, letter) ==
    [f EXCEPT !.tags = MapRemove(@, letter)]

\* Filter::event_matches_incomplete, with `until` taken one second early.
event_matches_incomplete_until_exclusive(f, e) ==
    IF f.ids # <<>> /\ ToHex(e.id) \notin Range(f.ids) THEN FALSE
    ELSE IF f.authors # <<>> /\ ToHex(e.pubkey) \notin Range(f.authors) THEN FALSE
    ELSE IF f.kinds # <<>> /\ e.kind \notin Range(f.kinds) THEN FALSE
    ELSE IF f.since # None /\ e.created_at < f.since[1] THEN FALSE
    ELSE IF f.until # None /\ e.created_at >= f.until[1] THEN FALSE
    ELSE TRUE

\* Filter::event_matches_incomplete: the checks in the code's order, each an
\* early return of false; the tags are not looked at ("TBD - check tags").
event_matches_incomplete(f, e) ==
    IF f.ids # <<>> /\ ToHex(e.id) \notin Range(f.ids) THEN FALSE
    ELSE IF f.authors # <<>> /\ ToHex(e.pubkey) \notin Range(f.authors) THEN FALSE
    ELSE IF f.kinds # <<>> /\ e.kind \notin Range(f.kinds) THEN FALSE
    ELSE IF f.since # None /\ e.created_at < f.since[1] THEN FALSE
    ELSE IF f.until # None /\ e.created_at > f.until[1] THEN FALSE
    ELSE TRUE

-----------------------------------------------------------------------------
(* types/naddr.rs                                                          *)

\* `len() as u8`: a usize cast to u8 keeps the low 8 bits.
AsU8(n) == n % 256

\* u32::to_be_bytes
ToBeBytes(u) ==
    <<u \div 16777216, (u \div 65536) % 256, (u \div 256) % 256, u % 256>>

\* u32::from_be_bytes
FromBeBytes(b) == ((b[1] * 256 + b[2]) * 256 + b[3]) * 256 + b[4]

\* A UTF-8 continuation byte.
IsCont(s, i) == i <= Len(s) /\ 128 <= s[i] /\ s[i] <= 191

\* std::str::from_utf8 succeeds: the bytes from index i on are well-formed
\* UTF-8 (no overlong form, no surrogate, nothing above U+10FFFF).
RECURSIVE Utf8From(_, _)
Utf8From(s, i) ==
    IF i > Len(s) THEN TRUE
    ELSE LET b == s[i] IN
         IF b < 128 THEN Utf8From(s, i + 1)
         ELSE IF 194 <= b /\ b <= 223
              THEN IsCont(s, i + 1) /\ Utf8From(s, i + 2)
         ELSE IF 224 <= b /\ b <= 239
              THEN /\ IsCont(s, i + 1) /\ IsCont(s, i + 2)
                   /\ b = 224 => s[i + 1] >= 160
                   /\ b = 237 => s[i + 1] <= 159
                   /\ Utf8From(s, i + 3)
         ELSE IF 240 <= b /\ b <= 244
              THEN /\ IsCont(s, i + 1) /\ IsCont(s, i + 2) /\ IsCont(s, i + 3)
                   /\ b = 240 => s[i + 1] >= 144
                   /\ b = 244 => s[i + 1] <= 143
                   /\ Utf8From(s, i + 4)
         ELSE FALSE

IsUtf8(s) == (\A i \in DOMAIN s : s[i] < 128) \/ Utf8From(s, 1)

\* PublicKey::from_bytes(raw, true) succeeds: 32 bytes that are the x
\* coordinate of a curve point. No point has x = 0, and 0xff..ff is not below
\* the field prime; the other keys of the model stand for valid ones.
PublicKeyFromBytesOk(raw) ==
    /\ Len(raw) = 32
    /\ \E i \in DOMAIN raw : raw[i] # 0
    /\ \E i \in DOMAIN raw : raw[i] # 255

\* The human-readable part registered for NAddr.
HRP_NADDR == "naddr"

\* bech32::encode: a checksummed string, kept as its human-readable part and
\* its payload bytes.
Bech32Encode(hrp, data) == [hrp |-> hrp, data |-> data]

\* One TLV field: type, one length byte, value.
TlvField(ty, value) == <<ty, AsU8(Len(value))>> \o value

\* The `for relay in &self.relays` loop of as_bech32_string.
RECURSIVE RelayFields(_)
RelayFields(relays) ==
    IF relays = <<>> THEN <<>>
    ELSE TlvField(1, Head(relays)) \o RelayFields(Tail(relays))

\* NAddr::as_bech32_string
as_bech32_string(x) ==
    LET tlv == TlvField(0, x.d)
               \o RelayFields(x.relays)
               \o (<<3, 4>> \o ToBeBytes(U32FromEventKind(x.kind)))
               \o (<<2, 32>> \o x.author)
    IN  Bech32Encode(HRP_NADDR, tlv)

Ok(v) == [ok |-> TRUE, value |-> v]

Err(e) == [ok |-> FALSE, error |-> e]

\* The process aborts (a slice index or a subtraction out of range).
Panic == [ok |-> FALSE, panic |-> TRUE]

\* relays.push(relay), with the new relay put in front.
PushRelayFront(relays, relay) == <<relay>> \o relays

\* relays.push(relay)
PushRelay(relays, relay) == Append(relays, relay)

\* The final match with the kind looked at first: a kind that is not
\* replaceable is reported whatever else is missing.
DecodeFinishKindFirst(st) ==
    IF st.kind # None /\ ~is_replaceable(st.kind[1])
    THEN Err("NonReplaceableAddr")
    ELSE IF st.d # None /\ st.kind # None /\ st.author # None
         THEN Ok([d |-> st.d[1], relays |-> st.relays, kind |-> st.kind[1],
                  author |-> st.author[1]])
         ELSE Err("InvalidNAddr")

\* try_from_bech32_string, the final match on (maybe_d, maybe_kind, maybe_author).
DecodeFinish(st) ==
    IF st.d # None /\ st.kind # None /\ st.author # None
    THEN IF ~is_replaceable(st.kind[1])
         THEN Err("NonReplaceableAddr")
         ELSE Ok([d |-> st.d[1], relays |-> st.relays, kind |-> st.kind[1],
                  author |-> st.author[1]])
    ELSE Err("InvalidNAddr")

\* try_from_bech32_string, the scanning loop from byte offset pos (0-based)
\* with st the fields seen so far.
RECURSIVE DecodeLoop(_, _, _)
DecodeLoop(tlv, pos, st) ==
    IF pos > Len(tlv) - 2 THEN DecodeFinish(st)
    ELSE LET ty == tlv[pos + 1]
             len == tlv[pos + 2]
             start == pos + 2
         IN  IF start + len > Len(tlv) THEN Err("InvalidProfile")
             ELSE LET raw == SubSeq(tlv, start + 1, start + len)
                      next == start + len
                  IN  CASE ty = 0 ->
                             IF IsUtf8(raw)
                             THEN DecodeLoop(tlv, next, [st EXCEPT !.d = Some(raw)])
                             ELSE Err("Utf8Error")
                        [] ty = 1 ->
                             IF IsUtf8(raw)
                             THEN DecodeLoop(tlv, next,
                                             [st EXCEPT !.relays = PushRelay(@, raw)])
                             ELSE Err("Utf8Error")
                        [] ty = 2 ->
                             IF PublicKeyFromBytesOk(raw)
                             THEN DecodeLoop(tlv, next, [st EXCEPT !.author = Some(raw)])
                             ELSE DecodeLoop(tlv, next, st)
                        [] ty = 3 ->
                             IF Len(raw) = 4
                             THEN DecodeLoop(tlv, next,
                                    [st EXCEPT !.kind = Some(EventKindFromU32(FromBeBytes(raw)))])
                             ELSE Err("WrongLengthKindBytes")
                        [] OTHER -> DecodeLoop(tlv, next, st)

\* NAddr::try_from_bech32_string on a checksum-valid string. `tlv.len() - 2`
\* is a usize subtraction: on a payload shorter than 2 bytes it overflows (a
\* panic in a debug build) or wraps, and then tlv[pos] or tlv[pos + 1] is out
\* of range: a panic either way.
try_from_bech32_string(s) ==
    IF s.hrp # HRP_NADDR THEN Err("WrongBech32")
    ELSE IF Len(s.data) < 2 THEN Panic
    ELSE DecodeLoop(s.data, 0,
                    [d |-> None, relays |-> <<>>, kind |-> None, author |-> None])

\* Equality of all four fields, as a derived PartialEq would have it.
NAddr_eq_derived(a, b) == a = b

\* impl PartialEq for NAddr: the relays are not compared.
NAddr_eq(a, b) == a.d = b.d /\ a.kind = b.kind /\ a.author = b.author


\* impl Hash for NAddr: the values handed to the hasher, in the order of the
\* three hash() calls; the relays are not among them.
NAddr_hash(x) == <<x.d, x.kind, x.author>>

-----------------------------------------------------------------------------
(* The Tag type, as far as lib.rs uses it                                  *)

\* A Tag is a list of strings: its name, its value and what follows. The
\* value is kept as its character codes, the name and the rest as strings.
Tag(name, value, rest) == [name |-> name, value |-> value, rest |-> rest]

\* The character of one hexadecimal digit, lower case.
HexCode(nibble) == IF nibble < 10 THEN 48 + nibble ELSE 87 + nibble

\* as_hex_string of an Id or a PublicKey: two characters per byte.
AsHexString(bytes) ==
    [i \in 1 .. (2 * Len(bytes)) |->
        IF i % 2 = 1 THEN HexCode(bytes[(i + 1) \div 2] \div 16)
        ELSE HexCode(bytes[i \div 2] % 16)]

\* The value of a hexadecimal digit character, -1 for another character.
HexVal(c) ==
    IF 48 <= c /\ c <= 57 THEN c - 48
    ELSE IF 97 <= c /\ c <= 102 THEN c - 87
    ELSE -1

\* The string is the hex form of 32 bytes.
IsHex32(s) == Len(s) = 64 /\ \A i \in DOMAIN s : HexVal(s[i]) >= 0

\* try_from_hex_string of an Id or a PublicKey.
FromHexString(s) ==
    [i \in 1 .. (Len(s) \div 2) |-> 16 * HexVal(s[2 * i - 1]) + HexVal(s[2 * i])]

\* A u32 written in decimal.
RECURSIVE FormatU32(_)
FormatU32(n) ==
    IF n < 10 THEN <<48 + n>> ELSE FormatU32(n \div 10) \o <<48 + (n % 10)>>

IsDecimal(s) == s # <<>> /\ \A i \in DOMAIN s : 48 <= s[i] /\ s[i] <= 57

\* A decimal string read as a u32.
RECURSIVE ParseU32(_)
ParseU32(s) ==
    IF s = <<>> THEN 0
    ELSE ParseU32(SubSeq(s, 1, Len(s) - 1)) * 10 + (s[Len(s)] - 48)

\* The index of the first ':' of s, 0 if it has none.
FirstColon(s) ==
    IF \E i \in DOMAIN s : s[i] = 58
    THEN CHOOSE i \in DOMAIN s : s[i] = 58 /\ \A j \in 1 .. (i - 1) : s[j] # 58
    ELSE 0

\* The fields after the value of an 'e' tag: the relay hint (an empty string
\* in its place if a marker follows), then the marker.
HintAndMarker(hint, marker) ==
    (IF hint # None THEN <<hint[1]>> ELSE IF marker # None THEN <<"">> ELSE <<>>)
    \o (IF marker # None THEN <<marker[1]>> ELSE <<>>)

\* Tag::new_pubkey
Tag_new_pubkey(pubkey, hint, petname) ==
    Tag("p", AsHexString(pubkey), HintAndMarker(hint, petname))

\* Tag::parse_pubkey, the pubkey of the result
Tag_parse_pubkey(t) ==
    IF t.name = "p" /\ IsHex32(t.value) THEN Ok(FromHexString(t.value))
    ELSE Err("TagMismatch")

\* Tag::new_event
Tag_new_event(id, hint, marker) ==
    Tag("e", AsHexString(id), HintAndMarker(hint, marker))

\* Tag::parse_event, the id of the result
Tag_parse_event(t) ==
    IF t.name = "e" /\ IsHex32(t.value) THEN Ok(FromHexString(t.value))
    ELSE Err("TagMismatch")

\* Tag::new_quote
Tag_new_quote(id, hint) ==
    Tag("q", AsHexString(id), HintAndMarker(hint, None))

\* Tag::parse_quote, the id of the result
Tag_parse_quote(t) ==
    IF t.name = "q" /\ IsHex32(t.value) THEN Ok(FromHexString(t.value))
    ELSE Err("TagMismatch")

\* Tag::new_address: the value is "<kind number>:<author hex>:<d>".
Tag_new_address(addr, marker) ==
    Tag("a",
        FormatU32(U32FromEventKind(addr.kind)) \o <<58>>
            \o AsHexString(addr.author) \o <<58>> \o addr.d,
        HintAndMarker(None, marker))

\* Tag::parse_address, the address of the result: the value split at its
\* first two colons.
Tag_parse_address(t) ==
    LET c1 == FirstColon(t.value)
        tail == SubSeq(t.value, c1 + 1, Len(t.value))
        c2 == FirstColon(tail)
        kindstr == SubSeq(t.value, 1, c1 - 1)
        authorstr == SubSeq(tail, 1, c2 - 1)
    IN  IF /\ t.name = "a"
           /\ c1 > 0
           /\ c2 > 0
           /\ IsDecimal(kindstr)
           /\ IsHex32(authorstr)
        THEN Ok([kind |-> EventKindFromU32(ParseU32(kindstr)),
                 author |-> FromHexString(authorstr),
                 d |-> SubSeq(tail, c2 + 1, Len(tail))])
        ELSE Err("TagMismatch")

-----------------------------------------------------------------------------
(* lib.rs: the add_*_to_tags functions                                     *)

\* iter().position(pred): the 0-based index of the first tag that satisfies
\* the predicate (one does).
FirstIndex(hits) == (CHOOSE i \in hits : \A j \in hits : i <= j) - 1

\* The match on position(): the index found and the list as it is, or the
\* new tag pushed and `existing_tags.len() - 1`.
FoundOrPushed(existing, hits, newtag) ==
    IF hits # {} THEN [tags |-> existing, idx |-> FirstIndex(hits)]
    ELSE [tags |-> Append(existing, newtag), idx |-> Len(Append(existing, newtag)) - 1]

\* add_pubkey_to_tags
add_pubkey_to_tags(existing, new_pubkey, new_hint) ==
    FoundOrPushed(existing,
        {i \in DOMAIN existing :
            Tag_parse_pubkey(existing[i]) = Ok(new_pubkey)},
        Tag_new_pubkey(new_pubkey, new_hint, None))

\* add_event_to_tags with the quote branch searching as the other branch
\* does.
add_event_to_tags_one_search(existing, new_id, new_hint, new_marker, use_quote) ==
    FoundOrPushed(existing,
        {i \in DOMAIN existing : Tag_parse_event(existing[i]) = Ok(new_id)},
        IF new_marker = "mention" /\ use_quote
        THEN Tag_new_quote(new_id, new_hint)
        ELSE Tag_new_event(new_id, new_hint, Some(new_marker)))

\* add_event_to_tags
add_event_to_tags(existing, new_id, new_hint, new_marker, use_quote) ==
    IF new_marker = "mention" /\ use_quote
    THEN FoundOrPushed(existing,
            {i \in DOMAIN existing : Tag_parse_quote(existing[i]) = Ok(new_id)},
            Tag_new_quote(new_id, new_hint))
    ELSE FoundOrPushed(existing,
            {i \in DOMAIN existing : Tag_parse_event(existing[i]) = Ok(new_id)},
            Tag_new_event(new_id, new_hint, Some(new_marker)))

\* add_addr_to_tags
add_addr_to_tags(existing, new_addr, new_marker) ==
    FoundOrPushed(existing,
        {i \in DOMAIN existing :
            LET r == Tag_parse_address(existing[i])
            IN  /\ r.ok
                /\ r.value.kind = new_addr.kind
                /\ r.value.author = new_addr.author
                /\ r.value.d = new_addr.d},
        Tag_new_address(new_addr, new_marker))
-----------------------------------------------------------------------------
(* The inputs the machines draw from                                       *)

\* How far around each range boundary the sampled u32 values reach.
KindWindow == 2

\* How many conversions are applied to one input.
MaxConv == 2

\* The ends of the ranges the code and its documentation name, and the
\* examples of the documentation.
KindLandmarks ==
    {0, 5000, 5500, 5999, 6000, 6999, 10000, 15000, 19999, 20000, 25000,
     29999, 30000, 39999, 40000, 99999}

\* The largest u32 sampled is 2^31 - 1, the largest integer TLC represents;
\* the u32 values above it take the same last arm, `x => Other(x)`.
HighU32 == {2147483647 - i : i \in 0 .. KindWindow}

\* The u32 inputs: every named code, and a window around every landmark.
U32Sample ==
    NamedCodes \cup HighU32 \cup
    {u \in UNION {(m - KindWindow) .. (m + KindWindow) : m \in KindLandmarks} : 0 <= u}

\* The payloads given to hand-built catch-all variants.
PayloadSample ==
    {1, 10002, 30023} \cup
    UNION {(m - 1) .. (m + KindWindow - 1) : m \in {5999, 6999, 15000, 25000, 99999}}

\* The EventKind values a caller can build: the enum's variants are public.
EventKindSample ==
    {Named(n) : n \in NamedNames} \cup
    {[variant |-> v, u |-> x] : v \in CatchAllVariants, x \in PayloadSample}

\* All sequences over S of length at most n.
SeqsUpTo(S, n) == UNION {[1 .. k -> S] : k \in 0 .. n}

\* A 32-byte value (an Id, a PublicKey) whose bytes count up from b.
Bytes32(b) == [i \in 1 .. 32 |-> (b + i) % 256]

\* Event ids and the IdHex values of a filter.
IdSample == {Bytes32(57), Bytes32(92), Bytes32(200)}

IdHexSample == {ToHex(id) : id \in IdSample}

\* Authors and the PublicKeyHex values of a filter.
PubkeySample == {Bytes32(33), Bytes32(170)}

PublicKeyHexSample == {ToHex(pk) : pk \in PubkeySample}

\* The kinds put in a filter; Other(1) is not TextNote for the derived PartialEq.
FilterKindSample == {Named("TextNote"), Replaceable(15000), Other(1)}

\* The tag letters and values of a filter.
LetterSample == {"e", "t"}

TagValueSample == {"foodstr", "bitcoin"}

\* add_tag_value is not applied to a list that already has this many values.
MaxTagValues == 2

\* Unixtime values run from 0 to MaxTime + 1.
MaxTime == 2

\* The filters given to event_matches_incomplete: the fields are public, so a
\* caller builds any of them directly.
MatchIdsSample ==
    {<<>>, <<ToHex(Bytes32(57))>>, <<ToHex(Bytes32(92)), ToHex(Bytes32(57))>>}

MatchAuthorsSample == {<<>>, <<ToHex(Bytes32(33))>>}

MatchKindsSample ==
    {<<>>, <<Named("TextNote")>>, <<Named("LongFormContent"), Named("Metadata")>>,
     <<Replaceable(15000)>>}

MatchTagsSample ==
    {EmptyMap,
     MapInsert(EmptyMap, "e", <<"foodstr">>),
     MapInsert(EmptyMap, "t", <<"foodstr", "bitcoin">>),
     MapInsert(MapInsert(EmptyMap, "e", <<"foodstr">>), "t", <<"bitcoin">>)}

TimeBoundSample == {None} \cup {Some(t) : t \in 1 .. MaxTime}

MatchFilterSample ==
    {[ids |-> i, authors |-> a, kinds |-> k, tags |-> t, since |-> s, until |-> u,
      limit |-> None] :
        i \in MatchIdsSample, a \in MatchAuthorsSample, k \in MatchKindsSample,
        t \in MatchTagsSample, s \in TimeBoundSample, u \in TimeBoundSample}

\* The tags an event carries, as <<letter, value>> pairs.
EventTagsSample ==
    {{}, {<<"e", "foodstr">>}, {<<"e", "foodstr">>, <<"t", "bitcoin">>}}

\* The events matched against a filter.
EventSample ==
    {[id |-> i, pubkey |-> p, kind |-> k, created_at |-> c, tags |-> t] :
        i \in {Bytes32(57), Bytes32(200)}, p \in PubkeySample,
        k \in {Named("TextNote"), Named("Metadata"), Replaceable(15000)},
        c \in 0 .. (MaxTime + 1), t \in EventTagsSample}

\* A string of n bytes, all the ASCII byte c.
AsciiString(n, c) == [i \in 1 .. n |-> c]

\* The lengths of the d-tags and of the relay URLs: empty, short, the most one
\* length byte can say (255), and past it.
LengthSample == {0, 5, 255, 256, 260}

\* d-tags: ASCII strings of the sampled lengths, and "héllo" (with a
\* two-byte character).
DSample ==
    {AsciiString(n, 100) : n \in LengthSample} \cup {<<104, 195, 169, 108, 108, 111>>}

\* Relay URLs, as the bytes of an UncheckedUrl.
RelaySample == {AsciiString(n, 119) : n \in {7, 255, 256}} \cup {AsciiString(7, 114)}

\* At most this many relays in an NAddr.
MaxRelays == 2

\* The kinds of an NAddr: named and catch-all ones that From<u32> returns,
\* replaceable and not, and two hand-built ones it never returns.
NAddrKindSample ==
    {Named("LongFormContent"), Named("Metadata"), Named("TextNote"),
     Replaceable(15000), Other(39999), Other(30023), Ephemeral(10002)}

\* Authors: valid public keys.
AuthorSample == {Bytes32(33), Bytes32(170)}

NAddrSample ==
    {[d |-> d, relays |-> r, kind |-> k, author |-> a] :
        d \in DSample, r \in SeqsUpTo(RelaySample, MaxRelays),
        k \in NAddrKindSample, a \in AuthorSample}

-----------------------------------------------------------------------------
(* The machines                                                            *)

\* The kind machine at rest, while another part of the crate is exercised.
IdleKind ==
    /\ kOrig = [ty |-> "none"]
    /\ kCur = kOrig
    /\ kSteps = 0

IdleFilter ==
    /\ filter = Filter_new
    /\ ghost = [ids |-> {}, authors |-> {}, kinds |-> {}]
    /\ lastOp = [op |-> "none"]

\* No event was given to event_matches_incomplete yet.
NoEvent == [id |-> <<>>, pubkey |-> <<>>, kind |-> Named("TextNote"), created_at |-> 0, tags |-> {}]

IdleMatch ==
    /\ event = NoEvent
    /\ matched = None

\* No NAddr was encoded yet.
IdleNAddr ==
    /\ nAddr = [d |-> <<>>, relays |-> <<>>, kind |-> Named("TextNote"), author |-> <<>>]
    /\ nText = None
    /\ nResult = None

IdlePayload ==
    /\ pChunks = <<>>
    /\ pResult = None
    /\ pOther = None

IdleCmp ==
    /\ nOther = [d |-> <<>>, relays |-> <<>>, kind |-> Named("TextNote"), author |-> <<>>]
    /\ nCmp = None

\* EventKindIterator::new(): pos is the struct's field; out (the items this
\* iterator value has yielded), last (what the last call of next() returned)
\* and ended (how many calls returned None) are records of its use.
EventKindIterator_new ==
    [pos |-> 0, out |-> <<>>, last |-> None, ended |-> 0]

IdleIter ==
    /\ itA = EventKindIterator_new
    /\ itB = None
    /\ itHint = None

IdleAdd ==
    /\ existing_tags = <<>>
    /\ lastAdd = [fn |-> "none"]

IdleSerde ==
    /\ deIn = [via |-> "none"]
    /\ deOut = None

IdleLater ==
    /\ IdlePayload
    /\ IdleCmp
    /\ IdleIter
    /\ IdleAdd
    /\ IdleSerde

\* The kind machine: an input u32 or EventKind, and the two conversions
\* applied to it in turn.
InitKind ==
    /\ IdleLater
    /\ IdleFilter
    /\ IdleMatch
    /\ IdleNAddr
    /\ kOrig \in {[ty |-> "u32", u |-> u] : u \in U32Sample} \cup
                 {[ty |-> "kind", e |-> e] : e \in EventKindSample}
    /\ kCur = kOrig
    /\ kSteps = 0

\* EventKind::from(u)
ConvertFromU32 ==
    /\ kCur.ty = "u32"
    /\ kSteps < MaxConv
    /\ kCur' = [ty |-> "kind", e |-> EventKindFromU32(kCur.u)]
    /\ kSteps' = kSteps + 1
    /\ UNCHANGED <<kOrig, filterVars, matchVars, naddrVars, laterVars>>

\* u32::from(e)
ConvertIntoU32 ==
    /\ kCur.ty = "kind"
    /\ kSteps < MaxConv
    /\ kCur' = [ty |-> "u32", u |-> U32FromEventKind(kCur.e)]
    /\ kSteps' = kSteps + 1
    /\ UNCHANGED <<kOrig, filterVars, matchVars, naddrVars, laterVars>>

NextKind ==
    \/ ConvertFromU32
    \/ ConvertIntoU32

SpecKind == InitKind /\ [][NextKind]_vars



\* The filter machine: a Filter built from Filter::new() by its methods for
\* ids, authors and kinds, and beside it the sets that the same inserts and
\* removes give.
InitFilter ==
    /\ IdleLater
    /\ IdleKind
    /\ IdleMatch
    /\ IdleNAddr
    /\ IdleFilter

AddId(x) ==
    /\ filter' = add_id(filter, x)
    /\ ghost' = [ghost EXCEPT !.ids = @ \cup {x}]
    /\ lastOp' = [op |-> "add_id", arg |-> x, before |-> filter]
    /\ UNCHANGED <<kindVars, matchVars, naddrVars, laterVars>>

DelId(x) ==
    /\ filter' = del_id(filter, x)
    /\ ghost' = [ghost EXCEPT !.ids = @ \ {x}]
    /\ lastOp' = [op |-> "del_id", arg |-> x, before |-> filter]
    /\ UNCHANGED <<kindVars, matchVars, naddrVars, laterVars>>

AddAuthor(x) ==
    /\ filter' = add_author(filter, x)
    /\ ghost' = [ghost EXCEPT !.authors = @ \cup {x}]
    /\ lastOp' = [op |-> "add_author", arg |-> x, before |-> filter]
    /\ UNCHANGED <<kindVars, matchVars, naddrVars, laterVars>>

DelAuthor(x) ==
    /\ filter' = del_author(filter, x)
    /\ ghost' = [ghost EXCEPT !.authors = @ \ {x}]
    /\ lastOp' = [op |-> "del_author", arg |-> x, before |-> filter]
    /\ UNCHANGED <<kindVars, matchVars, naddrVars, laterVars>>

AddEventKind(k) ==
    /\ filter' = add_event_kind(filter, k)
    /\ ghost' = [ghost EXCEPT !.kinds = @ \cup {k}]
    /\ lastOp' = [op |-> "add_event_kind", arg |-> k, before |-> filter]
    /\ UNCHANGED <<kindVars, matchVars, naddrVars, laterVars>>

DelEventKind(k) ==
    /\ filter' = del_event_kind(filter, k)
    /\ ghost' = [ghost EXCEPT !.kinds = @ \ {k}]
    /\ lastOp' = [op |-> "del_event_kind", arg |-> k, before |-> filter]
    /\ UNCHANGED <<kindVars, matchVars, naddrVars, laterVars>>

NextFilter ==
    \/ \E x \in IdHexSample : AddId(x)
    \/ \E x \in IdHexSample : DelId(x)
    \/ \E x \in PublicKeyHexSample : AddAuthor(x)
    \/ \E x \in PublicKeyHexSample : DelAuthor(x)
    \/ \E k \in FilterKindSample : AddEventKind(k)
    \/ \E k \in FilterKindSample : DelEventKind(k)

SpecFilter == InitFilter /\ [][NextFilter]_vars

\* The tag machine: the tag map of a Filter built from Filter::new() by its
\* four tag methods.
InitTags ==
    /\ IdleLater
    /\ IdleKind
    /\ IdleMatch
    /\ IdleNAddr
    /\ IdleFilter

AddTagValue(l, v) ==
    /\ l \in DOMAIN filter.tags => Len(filter.tags[l]) < MaxTagValues
    /\ filter' = add_tag_value(filter, l, v)
    /\ lastOp' = [op |-> "add_tag_value", letter |-> l, value |-> v, before |-> filter]
    /\ UNCHANGED <<ghost, kindVars, matchVars, naddrVars, laterVars>>

DelTagValue(l, v) ==
    /\ filter' = del_tag_value(filter, l, v)
    /\ lastOp' = [op |-> "del_tag_value", letter |-> l, value |-> v, before |-> filter]
    /\ UNCHANGED <<ghost, kindVars, matchVars, naddrVars, laterVars>>

SetTagValues(l, values) ==
    /\ filter' = set_tag_values(filter, l, values)
    /\ lastOp' = [op |-> "set_tag_values", letter |-> l, values |-> values, before |-> filter]
    /\ UNCHANGED <<ghost, kindVars, matchVars, naddrVars, laterVars>>

ClearTagValues(l) ==
    /\ filter' = clear_tag_values(filter, l)
    /\ lastOp' = [op |-> "clear_tag_values", letter |-> l, before |-> filter]
    /\ UNCHANGED <<ghost, kindVars, matchVars, naddrVars, laterVars>>

NextTags ==
    \/ \E l \in LetterSample, v \in TagValueSample : AddTagValue(l, v)
    \/ \E l \in LetterSample, v \in TagValueSample : DelTagValue(l, v)
    \/ \E l \in LetterSample, values \in SeqsUpTo(TagValueSample, MaxTagValues) :
          SetTagValues(l, values)
    \/ \E l \in LetterSample : ClearTagValues(l)

SpecTags == InitTags /\ [][NextTags]_vars

\* The match machine: a filter, and the events it is asked about one after
\* the other.
InitMatch ==
    /\ IdleLater
    /\ IdleKind
    /\ IdleMatch
    /\ IdleNAddr
    /\ filter \in MatchFilterSample
    /\ ghost = [ids |-> {}, authors |-> {}, kinds |-> {}]
    /\ lastOp = [op |-> "none"]

\* event_matches_incomplete takes &self and &Event and changes neither, so
\* one call per run shows all it does.
EventMatches(e) ==
    /\ matched = None
    /\ event' = e
    /\ matched' = Some(event_matches_incomplete(filter, e))
    /\ UNCHANGED <<kindVars, filterVars, naddrVars, laterVars>>

NextMatch == \E e \in EventSample : EventMatches(e)

SpecMatch == InitMatch /\ [][NextMatch]_vars

\* The NAddr machine: an NAddr, the bech32 string as_bech32_string makes of
\* it, and what try_from_bech32_string makes of that string.
InitNAddr ==
    /\ IdleLater
    /\ IdleKind
    /\ IdleMatch
    /\ IdleFilter
    /\ nAddr \in NAddrSample
    /\ nText = None
    /\ nResult = None

Encode ==
    /\ nText = None
    /\ nText' = Some(as_bech32_string(nAddr))
    /\ UNCHANGED <<nAddr, nResult, kindVars, filterVars, matchVars, laterVars>>

Decode ==
    /\ nText # None
    /\ nResult = None
    /\ nResult' = Some(try_from_bech32_string(nText[1]))
    /\ UNCHANGED <<nAddr, nText, kindVars, filterVars, matchVars, laterVars>>

NextNAddr ==
    \/ Encode
    \/ Decode

SpecNAddr == InitNAddr /\ [][NextNAddr]_vars


-----------------------------------------------------------------------------
(* The payload machine: try_from_bech32_string on payloads no encoder made  *)

\* At most this many chunks in a payload.
MaxChunks == 4

\* The bytes of a payload made of the given chunks.
RECURSIVE Concat(_)
Concat(chunks) ==
    IF chunks = <<>> THEN <<>> ELSE Head(chunks) \o Concat(Tail(chunks))

\* The pieces payloads are made of. Well-formed fields: two d-tags ("d1" and
\* the empty string), two relays, the kinds 30023 (LongFormContent) and 1
\* (TextNote), a valid author. And two pieces that are no fields: one stray
\* byte, and a header that announces five bytes and brings one.
ChunkSample ==
    {TlvField(0, <<100, 49>>), TlvField(0, <<>>),
     TlvField(1, AsciiString(3, 119)), TlvField(1, AsciiString(3, 114)),
     TlvField(3, ToBeBytes(30023)), TlvField(3, ToBeBytes(1)),
     TlvField(2, Bytes32(33)),
     <<5>>, <<0, 5, 1>>}

\* Fields of a type the decoder does not know.
UnknownFieldSample == {TlvField(4, <<9, 9>>)}

\* Type-2 fields whose value is no public key: of the wrong length, and 32
\* zero bytes (no curve point).
BadAuthorFieldSample == {TlvField(2, <<7>>), TlvField(2, AsciiString(32, 0))}

\* s with the elements at i and i + 1 exchanged.
SwapFields(s, i) == [s EXCEPT ![i] = s[i + 1], ![i + 1] = s[i]]

\* s with x put after its first i elements.
InsertAt(s, i, x) == SubSeq(s, 1, i) \o <<x>> \o SubSeq(s, i + 1, Len(s))

\* NAddr::try_from_bech32_string on the checksum-valid "naddr" string whose
\* payload is made of these chunks.
DecodeChunks(chunks) ==
    try_from_bech32_string(Bech32Encode(HRP_NADDR, Concat(chunks)))

InitPayload ==
    /\ IdleKind
    /\ IdleFilter
    /\ IdleMatch
    /\ IdleNAddr
    /\ IdleCmp
    /\ IdleIter
    /\ IdleAdd
    /\ IdleSerde
    /\ pChunks \in SeqsUpTo(ChunkSample, MaxChunks)
    /\ pResult = None
    /\ pOther = None

\* The other machines, at rest while the payload machine runs.
notPayloadVars ==
    <<kindVars, filterVars, matchVars, naddrVars, cmpVars, iterVars, addVars, serdeVars>>

DecodePayload ==
    /\ pResult = None
    /\ pResult' = Some(DecodeChunks(pChunks))
    /\ UNCHANGED <<pChunks, pOther, notPayloadVars>>

\* Decode the payload with two neighbouring chunks exchanged.
DecodeSwapped(i) ==
    /\ pResult # None
    /\ pOther = None
    /\ pOther' = Some([how |-> "swap", at |-> i,
                       result |-> DecodeChunks(SwapFields(pChunks, i))])
    /\ UNCHANGED <<pChunks, pResult, notPayloadVars>>

\* Decode the payload with a field of an unknown type put in.
DecodeWithUnknown(i, f) ==
    /\ pResult # None
    /\ pOther = None
    /\ pOther' = Some([how |-> "unknown", at |-> i,
                       result |-> DecodeChunks(InsertAt(pChunks, i, f))])
    /\ UNCHANGED <<pChunks, pResult, notPayloadVars>>

\* Decode the payload with a bad author field put in.
DecodeWithBadAuthor(i, f) ==
    /\ pResult # None
    /\ pOther = None
    /\ pOther' = Some([how |-> "badauthor", at |-> i,
                       result |-> DecodeChunks(InsertAt(pChunks, i, f))])
    /\ UNCHANGED <<pChunks, pResult, notPayloadVars>>

NextPayload ==
    \/ DecodePayload
    \/ \E i \in 1 .. (Len(pChunks) - 1) : DecodeSwapped(i)
    \/ \E i \in 0 .. Len(pChunks), f \in UnknownFieldSample : DecodeWithUnknown(i, f)
    \/ \E i \in 0 .. Len(pChunks), f \in BadAuthorFieldSample : DecodeWithBadAuthor(i, f)

SpecPayload == InitPayload /\ [][NextPayload]_vars

-----------------------------------------------------------------------------
(* The comparison machine: == and hash on two NAddr values                 *)

\* The NAddr values compared: two d-tags, no relay, one relay, two relays,
\* every sampled kind and author.
NAddrCompareSample ==
    {[d |-> d, relays |-> r, kind |-> k, author |-> a] :
        d \in {AsciiString(0, 100), AsciiString(5, 100)},
        r \in {<<>>, <<AsciiString(7, 119)>>, <<AsciiString(7, 114), AsciiString(7, 119)>>},
        k \in NAddrKindSample, a \in AuthorSample}

InitCmp ==
    /\ IdleKind
    /\ IdleFilter
    /\ IdleMatch
    /\ IdlePayload
    /\ IdleIter
    /\ IdleAdd
    /\ IdleSerde
    /\ nAddr \in NAddrCompareSample
    /\ nText = None
    /\ nResult = None
    /\ IdleCmp

\* nAddr == y, and both values hashed.
Compare(y) ==
    /\ nCmp = None
    /\ nOther' = y
    /\ nCmp' = Some([eq |-> NAddr_eq(nAddr, y),
                     hashSelf |-> NAddr_hash(nAddr),
                     hashOther |-> NAddr_hash(y)])
    /\ UNCHANGED <<kindVars, filterVars, matchVars, naddrVars, payloadVars,
                   iterVars, addVars, serdeVars>>

NextCmp == \E y \in NAddrCompareSample : Compare(y)

SpecNAddrEq == InitCmp /\ [][NextCmp]_vars

-----------------------------------------------------------------------------
(* The iterator machine: EventKind::iter()                                 *)

\* How many calls of next() that return None one iterator is followed through.
MaxEnded == 2

\* next() reading the table from its end.
EventKindIterator_next_reversed(it) ==
    IF it.pos = Len(WELL_KNOWN_KINDS)
    THEN [it EXCEPT !.last = Some(None), !.ended = @ + 1]
    ELSE LET rval == WELL_KNOWN_KINDS[Len(WELL_KNOWN_KINDS) - it.pos]
         IN  [it EXCEPT !.pos = @ + 1, !.out = Append(@, rval), !.last = Some(Some(rval))]

\* Iterator::next for EventKindIterator (the table is indexed from 0 in the
\* code, from 1 here).
EventKindIterator_next(it) ==
    IF it.pos = Len(WELL_KNOWN_KINDS)
    THEN [it EXCEPT !.last = Some(None), !.ended = @ + 1]
    ELSE LET rval == WELL_KNOWN_KINDS[it.pos + 1]
         IN  [it EXCEPT !.pos = @ + 1, !.out = Append(@, rval), !.last = Some(Some(rval))]

\* Iterator::size_hint for EventKindIterator
EventKindIterator_size_hint(it) ==
    [lo |-> it.pos, hi |-> Some(Len(WELL_KNOWN_KINDS))]

\* The derived Copy: a second iterator with the same pos, and so with the
\* same record of what was yielded up to here.
EventKindIterator_copy(it) == it

InitIter ==
    /\ IdleKind
    /\ IdleFilter
    /\ IdleMatch
    /\ IdleNAddr
    /\ IdlePayload
    /\ IdleCmp
    /\ IdleAdd
    /\ IdleSerde
    /\ IdleIter

\* The other machines, at rest while the iterator machine runs.
notIterVars ==
    <<kindVars, filterVars, matchVars, naddrVars, payloadVars, cmpVars, addVars, serdeVars>>

\* itA.next()
NextA ==
    /\ itA.ended < MaxEnded
    /\ itA' = EventKindIterator_next(itA)
    /\ itHint' = None
    /\ UNCHANGED <<itB, notIterVars>>

\* let itB = itA;
CopyA ==
    /\ itB = None
    /\ itB' = Some(EventKindIterator_copy(itA))
    /\ UNCHANGED <<itA, itHint, notIterVars>>

\* itB.next()
NextB ==
    /\ itB # None
    /\ itB[1].ended < MaxEnded
    /\ itB' = Some(EventKindIterator_next(itB[1]))
    /\ UNCHANGED <<itA, itHint, notIterVars>>

\* itA.size_hint()
SizeHintA ==
    /\ itHint = None
    /\ itHint' = Some(EventKindIterator_size_hint(itA))
    /\ UNCHANGED <<itA, itB, notIterVars>>

NextIter ==
    \/ NextA
    \/ CopyA
    \/ NextB
    \/ SizeHintA

SpecIter == InitIter /\ [][NextIter]_vars

-----------------------------------------------------------------------------
(* The tag list machine: add_pubkey_to_tags, add_event_to_tags,            *)
(* add_addr_to_tags on one Vec<Tag>                                        *)

\* The calls stop when the list has this many tags.
MaxTags == 3

\* Relay hints.
HintSample == {None, Some("wss://r1")}

\* Markers of 'e' tags.
MarkerSample == {"mention", "reply"}

\* Addresses: the kind 30023 as From<u32> gives it and as a hand-built
\* catch-all variant, a relay-specific replaceable kind, and a second d-tag.
AddrSample ==
    {[d |-> <<100, 49>>, relays |-> <<>>, kind |-> k, author |-> Bytes32(33)] :
        k \in {Named("LongFormContent"), Other(30023), Replaceable(15000)}}
    \cup {[d |-> <<100, 58, 50>>, relays |-> <<>>, kind |-> Named("LongFormContent"),
           author |-> Bytes32(33)]}

\* The lists the calls start from: none holds two tags for one target.
StartTagsSample ==
    {<<>>,
     <<Tag("subject", <<104, 105>>, <<>>)>>,
     <<Tag_new_event(Bytes32(57), None, Some("root")), Tag_new_pubkey(Bytes32(33), None, None)>>}

InitAdd ==
    /\ IdleKind
    /\ IdleFilter
    /\ IdleMatch
    /\ IdleNAddr
    /\ IdlePayload
    /\ IdleCmp
    /\ IdleIter
    /\ IdleSerde
    /\ existing_tags \in StartTagsSample
    /\ lastAdd = [fn |-> "none"]

\* The other machines, at rest while the tag list machine runs.
notAddVars ==
    <<kindVars, filterVars, matchVars, naddrVars, payloadVars, cmpVars, iterVars, serdeVars>>

AddPubkey(new_pubkey, new_hint) ==
    /\ Len(existing_tags) < MaxTags
    /\ LET r == add_pubkey_to_tags(existing_tags, new_pubkey, new_hint)
       IN  /\ existing_tags' = r.tags
           /\ lastAdd' = [fn |-> "add_pubkey_to_tags", pubkey |-> new_pubkey,
                          before |-> existing_tags, idx |-> r.idx]
    /\ UNCHANGED notAddVars

AddEvent(new_id, new_hint, new_marker, use_quote) ==
    /\ Len(existing_tags) < MaxTags
    /\ LET r == add_event_to_tags(existing_tags, new_id, new_hint, new_marker, use_quote)
       IN  /\ existing_tags' = r.tags
           /\ lastAdd' = [fn |-> "add_event_to_tags", id |-> new_id,
                          quote |-> (new_marker = "mention" /\ use_quote),
                          before |-> existing_tags, idx |-> r.idx]
    /\ UNCHANGED notAddVars

AddAddr(new_addr, new_marker) ==
    /\ Len(existing_tags) < MaxTags
    /\ LET r == add_addr_to_tags(existing_tags, new_addr, new_marker)
       IN  /\ existing_tags' = r.tags
           /\ lastAdd' = [fn |-> "add_addr_to_tags", addr |-> new_addr,
                          before |-> existing_tags, idx |-> r.idx]
    /\ UNCHANGED notAddVars

NextAdd ==
    \/ \E pk \in PubkeySample, h \in HintSample : AddPubkey(pk, h)
    \/ \E id \in {Bytes32(57), Bytes32(92)}, m \in MarkerSample, q \in BOOLEAN :
           AddEvent(id, None, m, q)
    \/ \E a \in AddrSample : AddAddr(a, None)

SpecAddTags == InitAdd /\ [][NextAdd]_vars

-----------------------------------------------------------------------------
(* The serde machine: Deserialize for EventKind                            *)

\* A u64 as its upper and its lower 32 bits.
U64(hi, lo) == [hi |-> hi, lo |-> lo]

\* `v as u32` of a u64: the lower 32 bits.
U64AsU32(v) == v.lo

\* EventKindVisitor::visit_u32
visit_u32(v) == Ok(EventKindFromU32(v))

\* EventKindVisitor::visit_u64
visit_u64(v) == Ok(EventKindFromU32(U64AsU32(v)))

\* The upper halves of the u64 inputs: numbers that fit in 32 bits, and
\* numbers that do not.
UpperHalfSample == {0, 1, 2}

\* What a deserializer hands to the visitor: a u32 to visit_u32 (a format
\* that stores 32-bit numbers), or a u64 to visit_u64 (JSON: any
\* non-negative number of the text).
InitSerde ==
    /\ IdleKind
    /\ IdleFilter
    /\ IdleMatch
    /\ IdleNAddr
    /\ IdlePayload
    /\ IdleCmp
    /\ IdleIter
    /\ IdleAdd
    /\ deIn \in {[via |-> "visit_u32", v |-> U64(0, lo)] : lo \in U32Sample} \cup
                {[via |-> "visit_u64", v |-> U64(hi, lo)] :
                    hi \in UpperHalfSample, lo \in U32Sample}
    /\ deOut = None

\* EventKind::deserialize, the deserializer calling visit_u32
DeserializeU32 ==
    /\ deOut = None
    /\ deIn.via = "visit_u32"
    /\ deOut' = Some(visit_u32(deIn.v.lo))
    /\ UNCHANGED <<deIn, kindVars, filterVars, matchVars, naddrVars, payloadVars,
                   cmpVars, iterVars, addVars>>

\* EventKind::deserialize, the deserializer calling visit_u64
DeserializeU64 ==
    /\ deOut = None
    /\ deIn.via = "visit_u64"
    /\ deOut' = Some(visit_u64(deIn.v))
    /\ UNCHANGED <<deIn, kindVars, filterVars, matchVars, naddrVars, payloadVars,
                   cmpVars, iterVars, addVars>>

NextSerde ==
    \/ DeserializeU32
    \/ DeserializeU64

SpecSerde == InitSerde /\ [][NextSerde]_vars
-----------------------------------------------------------------------------
(* Claims about the kind taxonomy                                          *)

\* C1: for every u32 k, converting k to an EventKind and the result back to
\* u32 yields exactly k.
C1_U32RoundTrip ==
    (kOrig.ty = "u32" /\ kSteps = 2) => (kCur.ty = "u32" /\ kCur.u = kOrig.u)

C1_Witness ==
    /\ kOrig.ty = "u32" /\ kSteps = 2
    /\ kOrig.u = 10002
    /\ kCur.u = 10002

\* What the documentation says From<u32> gives: the named constant for a named
\* code, else the catch-all variant of the range, both ends included.
C2_ClaimedKind(k) ==
    IF k \in NamedCodes THEN Named(NameOfCode(k))
    ELSE IF 5000 <= k /\ k <= 5999 THEN JobRequest(k)
    ELSE IF 6000 <= k /\ k <= 6999 THEN JobResult(k)
    ELSE IF 10000 <= k /\ k <= 19999 THEN Replaceable(k)
    ELSE IF 20000 <= k /\ k <= 29999 THEN Ephemeral(k)
    ELSE Other(k)

\* C2: EventKind::from(k) is the named constant for a named code, otherwise
\* JobRequest(k) on 5000..=5999, JobResult(k) on 6000..=6999, Replaceable(k) on
\* 10000..=19999, Ephemeral(k) on 20000..=29999 and Other(k) elsewhere; the
\* variant is JobRequest exactly when is_job_request holds, and JobResult
\* exactly when is_job_result holds.
C2_FromU32Classification ==
    (kOrig.ty = "u32" /\ kSteps = 1) =>
        /\ kCur.e = C2_ClaimedKind(kOrig.u)
        /\ (kCur.e.variant = "JobRequest") <=> is_job_request(kCur.e)
        /\ (kCur.e.variant = "JobResult") <=> is_job_result(kCur.e)

\* The EventKind values From<u32> returns.
C3_InImage(e) == \E k \in U32Sample \cup PayloadSample : EventKindFromU32(k) = e

-----------------------------------------------------------------------------
(* Claims about the Filter                                                 *)

\* C4: event_matches_incomplete returns true exactly when ids is empty or
\* holds the event's id hex, authors is empty or holds the event's pubkey hex,
\* kinds is empty or holds the event's kind, since is absent or
\* created_at >= since, and until is absent or created_at <= until.
C4_MatchesExactly ==
    (matched # None) =>
        (matched[1] <=>
            /\ filter.ids = <<>> \/ \E i \in DOMAIN filter.ids : filter.ids[i] = ToHex(event.id)
            /\ filter.authors = <<>>
                  \/ \E i \in DOMAIN filter.authors : filter.authors[i] = ToHex(event.pubkey)
            /\ filter.kinds = <<>> \/ \E i \in DOMAIN filter.kinds : filter.kinds[i] = event.kind
            /\ filter.since = None \/ event.created_at >= filter.since[1]
            /\ filter.until = None \/ event.created_at <= filter.until[1])

\* An event timestamped exactly at `until` is accepted by a filter that
\* constrains every dimension.
C4_Witness ==
    /\ matched = Some(TRUE)
    /\ filter.ids # <<>> /\ filter.authors # <<>> /\ filter.kinds # <<>>
    /\ filter.since = Some(1) /\ filter.until = Some(2)
    /\ event.created_at = 2

\* C5: a filter matches an event only if, for every letter of its tag map,
\* the event carries a tag of that letter whose value is in the filter's list
\* for the letter.
C5_TagsConstrainMatch ==
    (matched = Some(TRUE)) =>
        \A l \in DOMAIN filter.tags :
            \E i \in DOMAIN filter.tags[l] : <<l, filter.tags[l][i]>> \in event.tags

\* A sequence without a repeated element.
C6_NoDuplicate(s) == \A i, j \in DOMAIN s : s[i] = s[j] => i = j

\* C6: after any sequence of add_id/del_id, add_author/del_author and
\* add_event_kind/del_event_kind calls from Filter::new(), each backing vector
\* has no duplicate and its elements are exactly the set the same inserts and
\* removes give; adding a present value changes nothing, and a deleted value
\* is gone while every other member is kept.
C6_VectorsAreSets ==
    /\ C6_NoDuplicate(filter.ids) /\ Range(filter.ids) = ghost.ids
    /\ C6_NoDuplicate(filter.authors) /\ Range(filter.authors) = ghost.authors
    /\ C6_NoDuplicate(filter.kinds) /\ Range(filter.kinds) = ghost.kinds
    /\ \A field \in {"ids", "authors", "kinds"} :
          LET add == IF field = "ids" THEN "add_id"
                     ELSE IF field = "authors" THEN "add_author" ELSE "add_event_kind"
              del == IF field = "ids" THEN "del_id"
                     ELSE IF field = "authors" THEN "del_author" ELSE "del_event_kind"
          IN  /\ (lastOp.op = add /\ lastOp.arg \in Range(lastOp.before[field])) =>
                     filter = lastOp.before
              /\ (lastOp.op = del) =>
                     Range(filter[field]) = Range(lastOp.before[field]) \ {lastOp.arg}

\* An id was deleted from the front of three: the last took its place.
C6_Witness ==
    /\ lastOp.op = "del_id"
    /\ Len(lastOp.before.ids) = 3
    /\ lastOp.arg = lastOp.before.ids[1]
    /\ filter.ids = <<lastOp.before.ids[3], lastOp.before.ids[2]>>
    /\ ghost.ids = {lastOp.before.ids[2], lastOp.before.ids[3]}

\* C7: add_tag_value(letter, value) with value already in the letter's list is
\* a no-op, and it never makes a list hold the same value twice.
C7_AddTagValueIdempotent ==
    (lastOp.op = "add_tag_value" /\ lastOp.letter \in DOMAIN lastOp.before.tags) =>
        LET was == lastOp.before.tags[lastOp.letter]
        IN  /\ lastOp.value \in Range(was) => filter = lastOp.before
            /\ C6_NoDuplicate(was) => C6_NoDuplicate(filter.tags[lastOp.letter])

\* C8: after any sequence of add_tag_value, del_tag_value, set_tag_values and
\* clear_tag_values calls from Filter::new(), no letter of the tag map is
\* mapped to an empty list.
C8_NoEmptyTagList ==
    \A l \in DOMAIN filter.tags : filter.tags[l] # <<>>

-----------------------------------------------------------------------------
(* Claims about NAddr                                                      *)

\* The d-tag and every relay URL fit the one length byte.
C9_FitsLengthByte(x) ==
    /\ Len(x.d) <= 255
    /\ \A i \in DOMAIN x.relays : Len(x.relays[i]) <= 255

C10_FieldValues(x) ==
    <<x.d>> \o x.relays \o <<ToBeBytes(U32FromEventKind(x.kind)), x.author>>

\* The 0-based offset of field i in the payload.
RECURSIVE C10_Offset(_, _)
C10_Offset(values, i) ==
    IF i = 1 THEN 0 ELSE C10_Offset(values, i - 1) + 2 + Len(values[i - 1])

\* C10: in the TLV bytes as_bech32_string produces, each field's length byte
\* is the number of value bytes written after it, so no field value is longer
\* than 255 bytes.
C10_LengthByteExact ==
    (nText # None) =>
        LET values == C10_FieldValues(nAddr)
        IN  \A i \in DOMAIN values :
                /\ nText[1].data[C10_Offset(values, i) + 2] = Len(values[i])
                /\ Len(values[i]) <= 255


-----------------------------------------------------------------------------
(* Claims about NAddr::try_from_bech32_string on arbitrary payloads        *)

\* C11: for every checksum-valid "naddr" string, whatever its payload bytes
\* (a payload of 0 or 1 bytes included), try_from_bech32_string returns Ok or
\* a typed Err: it never panics.
C11_NeverPanics ==
    (pResult # None) => "panic" \notin DOMAIN pResult[1]

\* The chunk is one well-formed field: a type byte, a length byte, and as
\* many value bytes as the length byte says.
C12_IsField(c) == Len(c) >= 2 /\ c[2] = Len(c) - 2

C12_Ty(c) == c[1]

C12_Value(c) == SubSeq(c, 3, Len(c))

\* The payload is a sequence of at least one well-formed field, none with a
\* field-level error: the texts are UTF-8 and the kinds have four bytes. The
\* scan of such a payload runs to its end.
C12_CleanScan(chunks) ==
    /\ chunks # <<>>
    /\ \A i \in DOMAIN chunks :
        /\ C12_IsField(chunks[i])
        /\ C12_Ty(chunks[i]) \in {0, 1} => IsUtf8(C12_Value(chunks[i]))
        /\ C12_Ty(chunks[i]) = 3 => Len(C12_Value(chunks[i])) = 4

C12_HasD(chunks) == \E i \in DOMAIN chunks : C12_Ty(chunks[i]) = 0

C12_HasKind(chunks) == \E i \in DOMAIN chunks : C12_Ty(chunks[i]) = 3

C12_HasAuthor(chunks) ==
    \E i \in DOMAIN chunks :
        C12_Ty(chunks[i]) = 2 /\ PublicKeyFromBytesOk(C12_Value(chunks[i]))

\* The kind of the last kind field.
C12_Kind(chunks) ==
    LET i == CHOOSE i \in DOMAIN chunks :
                 /\ C12_Ty(chunks[i]) = 3
                 /\ \A j \in DOMAIN chunks : j > i => C12_Ty(chunks[j]) # 3
    IN  EventKindFromU32(FromBeBytes(C12_Value(chunks[i])))

\* C12: after a scan that completes without a field-level error, decode
\* succeeds only if a d-tag, a kind and a valid author were all seen; if one
\* is missing the result is InvalidNAddr, also when the kind is not
\* replaceable; if all are there and the kind is not replaceable the result
\* is NonReplaceableAddr; every NAddr returned has a replaceable kind.
C12_RequiredFields ==
    (pResult # None /\ C12_CleanScan(pChunks)) =>
        LET all == C12_HasD(pChunks) /\ C12_HasKind(pChunks) /\ C12_HasAuthor(pChunks)
        IN  /\ ~all => pResult[1] = Err("InvalidNAddr")
            /\ (all /\ ~is_replaceable(C12_Kind(pChunks))) =>
                   pResult[1] = Err("NonReplaceableAddr")
            /\ pResult[1].ok => (all /\ is_replaceable(pResult[1].value.kind))
            /\ (all /\ is_replaceable(C12_Kind(pChunks))) =>
                   (pResult[1].ok /\ pResult[1].value.kind = C12_Kind(pChunks))

\* A payload with a d-tag and the kind TextNote and no author was decoded:
\* InvalidNAddr, though the kind is not replaceable.
C12_Witness ==
    /\ pResult = Some(Err("InvalidNAddr"))
    /\ C12_CleanScan(pChunks)
    /\ C12_HasD(pChunks)
    /\ C12_HasKind(pChunks)
    /\ ~C12_HasAuthor(pChunks)
    /\ ~is_replaceable(C12_Kind(pChunks))

\* C13: for a payload of well-formed fields, the decoded result does not
\* change when d-tag, kind and author fields are permuted (two relay fields
\* are not exchanged) or when a well-formed field of a type other than 0, 1,
\* 2, 3 is inserted at a field boundary.
C13_OrderAndUnknownFree ==
    (/\ pOther # None
     /\ \A i \in DOMAIN pChunks : C12_IsField(pChunks[i])
     /\ \/ pOther[1].how = "unknown"
        \/ /\ pOther[1].how = "swap"
           /\ ~(C12_Ty(pChunks[pOther[1].at]) = 1 /\ C12_Ty(pChunks[pOther[1].at + 1]) = 1))
    => pOther[1].result = pResult[1]

\* C14: decoding a payload that contains a type-2 field whose value is no
\* valid public key gives exactly the result, success or error, of decoding
\* the payload without that field.
C14_BadAuthorDropped ==
    (/\ pOther # None
     /\ pOther[1].how = "badauthor"
     /\ \A i \in DOMAIN pChunks : C12_IsField(pChunks[i]))
    => pOther[1].result = pResult[1]

-----------------------------------------------------------------------------
(* Claims about NAddr's equality and hash                                  *)

C15_SameIdentity(a, b) == a.d = b.d /\ a.kind = b.kind /\ a.author = b.author

\* C15: NAddr equality and hashing depend on (d, kind, author) only: two
\* values with equal d, kind and author are equal and feed the same data to
\* the hasher whatever their relays are, values that differ in one of the
\* three are not equal, and two equal values have equal hashes.
C15_EqHashIgnoreRelays ==
    (nCmp # None) =>
        /\ nCmp[1].eq <=> C15_SameIdentity(nAddr, nOther)
        /\ C15_SameIdentity(nAddr, nOther) => nCmp[1].hashSelf = nCmp[1].hashOther
        /\ nCmp[1].eq => nCmp[1].hashSelf = nCmp[1].hashOther

\* Two values with the same d, kind and author and different relays were
\* compared and hashed.
C15_Witness ==
    /\ nCmp # None
    /\ C15_SameIdentity(nAddr, nOther)
    /\ nAddr.relays # nOther.relays
    /\ Len(nOther.relays) = 2
    /\ nCmp[1].eq
    /\ nCmp[1].hashSelf = nCmp[1].hashOther

-----------------------------------------------------------------------------
(* Claims about the classification of converted kinds                      *)

\* C16: for every u32 k, is_replaceable(EventKind::from(k)) holds exactly
\* when k is 0, 3 or lies in 10000..=19999 or 30000..=39999; is_ephemeral
\* exactly when k lies in 20000..=29999; is_parameterized_replaceable exactly
\* when k lies in 30000..=39999, and it implies is_replaceable.
C16_ClassificationByNumber ==
    (kOrig.ty = "u32" /\ kSteps = 1) =>
        LET k == kOrig.u
            e == kCur.e
        IN  /\ is_replaceable(e) <=>
                  (k \in {0, 3} \/ (10000 <= k /\ k <= 19999) \/ (30000 <= k /\ k <= 39999))
            /\ is_ephemeral(e) <=> (20000 <= k /\ k <= 29999)
            /\ is_parameterized_replaceable(e) <=> (30000 <= k /\ k <= 39999)
            /\ is_parameterized_replaceable(e) => is_replaceable(e)

\* 0 was converted: Metadata, replaceable though its number is in no range.
C16_Witness ==
    /\ kOrig.ty = "u32" /\ kSteps = 1
    /\ kOrig.u = 0
    /\ kCur.e = Named("Metadata")
    /\ is_replaceable(kCur.e)
    /\ ~is_parameterized_replaceable(kCur.e)

-----------------------------------------------------------------------------
(* Claims about EventKind::iter()                                          *)

\* The named kinds, in the order of their declaration.
C17_Declared == [i \in DOMAIN NamedKinds |-> Named(NamedKinds[i][1])]

\* What an iterator has done so far is what the claim says of it: it yielded
\* the named kinds in declaration order from the first on, each once and no
\* catch-all variant; it returned None only after the last of them, and only
\* None after that.
C17_IterOk(it) ==
    /\ Len(it.out) <= Len(C17_Declared)
    /\ it.out = SubSeq(C17_Declared, 1, Len(it.out))
    /\ \A i, j \in DOMAIN it.out : it.out[i] = it.out[j] => i = j
    /\ \A i \in DOMAIN it.out :
        /\ it.out[i].variant \notin CatchAllVariants
        /\ it.out[i].variant \in NamedNames
    /\ it.ended > 0 =>
        /\ it.last = Some(None)
        /\ Range(it.out) = {Named(n) : n \in NamedNames}
    /\ (it.ended = 0 /\ it.out # <<>>) => it.last = Some(Some(it.out[Len(it.out)]))

\* C17: every iterator from EventKind::iter() yields each named kind exactly
\* once, in declaration order, then None on every later call; it never
\* yields a catch-all variant; and what one iterator yields does not depend
\* on how far another one, a copy of it included, was advanced.
C17_IterYieldsDeclared ==
    /\ C17_IterOk(itA)
    /\ itB # None => C17_IterOk(itB[1])

\* A copy was taken of itA and run to its end and asked twice more, while
\* itA has yielded five items.
C17_Witness ==
    /\ itB # None
    /\ itB[1].ended = 2
    /\ Len(itB[1].out) = Len(NamedKinds)
    /\ Len(itA.out) = 5
    /\ itA.last = Some(Some(C17_Declared[5]))

\* C19: at every point of an iteration, size_hint() returns (lo, Some(hi))
\* with lo <= (number of items next() will still yield) <= hi.
C19_SizeHintBrackets ==
    (itHint # None) =>
        LET remaining == Len(WELL_KNOWN_KINDS) - itA.pos
        IN  /\ itHint[1].hi # None
            /\ itHint[1].lo <= remaining
            /\ remaining <= itHint[1].hi[1]

-----------------------------------------------------------------------------
(* Claims about the add_*_to_tags functions                                *)

\* The tag is one for the target of the call made last.
C18_Matches(t, call) ==
    CASE call.fn = "add_pubkey_to_tags" -> Tag_parse_pubkey(t) = Ok(call.pubkey)
      [] call.fn = "add_event_to_tags" ->
            IF call.quote THEN Tag_parse_quote(t) = Ok(call.id)
            ELSE Tag_parse_event(t) = Ok(call.id)
      [] call.fn = "add_addr_to_tags" ->
            Tag_parse_address(t) =
                Ok([kind |-> call.addr.kind, author |-> call.addr.author, d |-> call.addr.d])

\* No two tags of the list are for one target: one pubkey, one event id
\* among the 'e' tags or among the 'q' tags, one (kind, author, d) address.
C18_NoDuplicateTarget(tags) ==
    \A i, j \in DOMAIN tags :
        i # j =>
            /\ ~(Tag_parse_pubkey(tags[i]).ok /\ Tag_parse_pubkey(tags[i]) = Tag_parse_pubkey(tags[j]))
            /\ ~(Tag_parse_event(tags[i]).ok /\ Tag_parse_event(tags[i]) = Tag_parse_event(tags[j]))
            /\ ~(Tag_parse_quote(tags[i]).ok /\ Tag_parse_quote(tags[i]) = Tag_parse_quote(tags[j]))
            /\ ~(Tag_parse_address(tags[i]).ok /\ Tag_parse_address(tags[i]) = Tag_parse_address(tags[j]))

\* What the call made last did: with a matching tag in the list, the list is
\* unchanged and the index returned is that of the first matching tag;
\* otherwise one tag is appended, the others stay as they were, and the
\* index returned is that of the last element. The index is in bounds.
C18_FoundOrAppended ==
    LET before == lastAdd.before
        hits == {i \in DOMAIN before : C18_Matches(before[i], lastAdd)}
    IN  /\ hits # {} =>
            /\ existing_tags = before
            /\ lastAdd.idx + 1 \in hits
            /\ \A i \in hits : lastAdd.idx + 1 <= i
        /\ hits = {} =>
            /\ Len(existing_tags) = Len(before) + 1
            /\ SubSeq(existing_tags, 1, Len(before)) = before
            /\ lastAdd.idx = Len(existing_tags) - 1
        /\ 0 <= lastAdd.idx /\ lastAdd.idx < Len(existing_tags)

C18_DecodableAddr(call) ==
    call.fn = "add_addr_to_tags" =>
        (is_replaceable(call.addr.kind) /\ C3_InImage(call.addr.kind))

-----------------------------------------------------------------------------
(* Claims about deserializing an EventKind                                 *)

\* C20: deserializing an EventKind from an unsigned integer n never aliases
\* kinds: when a kind results, its numeric code equals n; so an integer that
\* does not fit in 32 bits (2^32 + 1, say) gives no kind of another number.
C20_NoAliasing ==
    (deOut # None /\ deOut[1].ok) =>
        /\ deIn.v.hi = 0
        /\ U32FromEventKind(deOut[1].value) = deIn.v.lo
====
